---- MODULE Spec2Model ----
(***************************************************************************)
(* A model of vnpy_rest/rest_client.py: the RestClient dispatch engine,    *)
(* its asyncio worker loops, the add_request / request submission paths    *)
(* and the routing of each outcome to the callback, on_failed and on_error *)
(* hooks.                                                                  *)
(*                                                                         *)
(* The asyncio event loop is modelled as the code drives it: run_forever   *)
(* executes iterations; one iteration runs the handles that were ready     *)
(* when it began; loop.stop() only sets a flag that run_forever tests      *)
(* after each iteration.                                                   *)
(***************************************************************************)
EXTENDS Integers, Sequences, FiniteSets, TLC

\* ---------------------------------------------------------------- bounds
MaxReq == 2
MaxLoops == 2
MaxThreads == 2
MaxLen == 1

Reqs == 1..MaxReq
Loops == 1..MaxLoops
Threads == 1..MaxThreads

\* HTTP statuses the server may answer with: both edges of the 2xx range.
Statuses == {199, 200, 299, 300}
\* Response bodies: short texts over a digit and a non-JSON character.
Chars == {"1", "x"}
Texts == UNION {[1..n -> Chars] : n \in 0..MaxLen}
\* The answers of the server in the specification of the client's life
\* cycle: one success status, one failure status and one JSON body.
FewStatuses == {200, 300}
FewTexts == {<<"1">>}

VARIABLES
    loop,       \* RestClient.loop: 0 is None, otherwise the id of an event loop
    session,    \* number of ClientSession objects created (0: self.session is None)
    lstate,     \* per event loop: "none" | "new" (thread started) | "running" | "exited"
    stopping,   \* per event loop: the _stopping flag set by loop.stop()
    iter,       \* per event loop: an iteration of run_forever is in progress
    batch,      \* per event loop: handles the iteration in progress still has to run
    rq,         \* per Request: its fields and the position of its coroutine
    calls,      \* per Request: the hook invocations made for it, in order
    stopped,    \* history: the loops stop() was called on while they ran
    busy,       \* per event loop: the request whose step its thread is inside
                \* (creating the session, or executing hooks); 0 when none
    joined      \* history: the loops join() returned for after stop()

vars == <<loop, session, lstate, stopping, iter, batch, rq, calls, stopped,
          busy, joined>>

\* ------------------------------------------------------- Response / loads
\* Request.response is None until a Response is attached.
None == [status_code |-> 0, text |-> <<>>]

\* Response.__init__
Response(status_code, text) == [status_code |-> status_code, text |-> text]

IsDigit(c) == c \in {"0", "1", "2", "3", "4", "5", "6", "7", "8", "9"}

DigitVal(c) ==
    CASE c = "0" -> 0 [] c = "1" -> 1 [] c = "2" -> 2 [] c = "3" -> 3
      [] c = "4" -> 4 [] c = "5" -> 5 [] c = "6" -> 6 [] c = "7" -> 7
      [] c = "8" -> 8 [] c = "9" -> 9

\* json.loads raises on a text that is no JSON document; of the texts above
\* the JSON documents are the decimal numbers.
Decodes(text) ==
    /\ Len(text) > 0
    /\ \A i \in 1..Len(text) : IsDigit(text[i])
    /\ (Len(text) > 1 => text[1] # "0")

RECURSIVE NumVal(_)
NumVal(text) ==
    IF text = <<>> THEN 0
    ELSE 10 * NumVal(SubSeq(text, 1, Len(text) - 1)) + DigitVal(text[Len(text)])

\* Response.json: the decoded body (defined when Decodes(text)).
json(response) == NumVal(response.text)

\* Request.__str__: the status shown in the rendering.
RenderStatus(response) ==
    IF response = None THEN "terminated" ELSE ToString(response.status_code)

\* ------------------------------------------------------------- Request
\* Request.__init__, before submission; kind "none" marks an unused slot.
\* (History: afterStop, atStop, after, the requests whose execution unit had
\* ended when this one was submitted, and sent, the number of
\* session.request calls issued for it.)
NewRequest ==
    [kind |-> "none", pc |-> "none", lp |-> 0, thread |-> 0,
     ownFailed |-> FALSE, ownError |-> FALSE,
     signed |-> 0, sent |-> 0, net |-> "none", cr |-> 0, body |-> <<>>,
     response |-> None,
     fut |-> "pending", caller |-> "na", ret |-> None, exc |-> "",
     afterStop |-> FALSE, atStop |-> FALSE, after |-> {}]

Init ==
    /\ loop = 0
    /\ session = 0
    /\ lstate = [L \in Loops |-> "none"]
    /\ stopping = [L \in Loops |-> FALSE]
    /\ iter = [L \in Loops |-> FALSE]
    /\ batch = [L \in Loops |-> {}]
    /\ rq = [r \in Reqs |-> NewRequest]
    /\ calls = [r \in Reqs |-> <<>>]
    /\ stopped = {}
    /\ busy = [L \in Loops |-> 0]
    /\ joined = {}

\* ------------------------------------------------------- caller threads
\* A variant of Blocked in which a call of request() holds up every thread.
BlockedByAny(t) ==
    \E r \in Reqs : rq[r].kind = "sync" /\ rq[r].caller = "waiting"

\* A caller thread inside request() waits in fut.result() for its own future.
Blocked(t) ==
    \E r \in Reqs : rq[r].kind = "sync" /\ rq[r].thread = t /\ rq[r].caller = "waiting"

\* asyncio.get_running_loop() in thread t: the loop running in that thread.
\* A caller thread runs no loop (RuntimeError, modelled as 0).
get_running_loop(t) == 0

\* loop.is_running()
is_running(L) == lstate[L] = "running"

Free == {r \in Reqs : rq[r].kind = "none"}
Fresh == {L \in Loops : lstate[L] = "none"}

Min(S) == CHOOSE x \in S : \A y \in S : x <= y

\* ------------------------------------------------------------ lifecycle
\* start_event_loop: a background thread is created when the loop is not running.
start_event_loop(L) ==
    IF is_running(L) THEN lstate ELSE [lstate EXCEPT ![L] = "new"]

\* RestClient.start, called by caller thread t: self.loop becomes the loop
\* running in the calling thread or, on RuntimeError, a new event loop.
start(t) ==
    /\ ~Blocked(t)
    /\ Fresh # {}
    /\ LET L == IF get_running_loop(t) # 0 THEN get_running_loop(t) ELSE Min(Fresh)
       IN  /\ loop' = L
           /\ lstate' = start_event_loop(L)
    /\ UNCHANGED <<session, stopping, iter, batch, rq, calls, stopped, busy, joined>>

\* run_event_loop: the background thread enters loop.run_forever().
run_event_loop(L) ==
    /\ lstate[L] = "new"
    /\ lstate' = [lstate EXCEPT ![L] = "running"]
    /\ UNCHANGED <<loop, session, stopping, iter, batch, rq, calls, stopped, busy, joined>>

\* Positions of a coroutine whose network call has been issued and has not
\* yet been brought to its outcome.
InFlight == {"io1", "net1", "wake1", "io2", "net2", "wake2"}

\* A variant of loop_stop that leaves the flag alone.
loop_stop_nothing(L) == stopping

\* loop.stop(): sets the flag run_forever tests after each iteration.
loop_stop(L) == [stopping EXCEPT ![L] = TRUE]

\* RestClient.stop, called by caller thread t; without effect unless
\* self.loop is set and running.  (History: stopped records the loop, atStop
\* the add_request requests that were in flight on it.)
stop(t) ==
    /\ ~Blocked(t)
    /\ loop # 0
    /\ is_running(loop)
    /\ stopping' = loop_stop(loop)
    /\ stopped' = stopped \cup {loop}
    /\ rq' = [r \in Reqs |->
                IF rq[r].lp = loop /\ rq[r].pc \in InFlight /\ rq[r].kind = "async"
                THEN [rq[r] EXCEPT !.atStop = TRUE] ELSE rq[r]]
    /\ UNCHANGED <<loop, session, lstate, iter, batch, calls, busy, joined>>

\* RestClient.join, called by caller thread t: "pass", it returns at once.
\* (History: joined records the loop when stop() had been called on it.)
join(t) ==
    /\ ~Blocked(t)
    /\ joined' = joined \cup (stopped \cap {loop})
    /\ UNCHANGED <<loop, session, lstate, stopping, iter, batch, rq, calls,
                   stopped, busy>>

\* ----------------------------------------------------------- submission
\* The Request built by add_request / request and handed to
\* run_coroutine_threadsafe(coro, self.loop).  With self.loop None the call
\* raises in the caller and nothing is scheduled.
Submitted(kind, t, of, oe) ==
    IF loop = 0
    THEN [NewRequest EXCEPT !.kind = kind, !.pc = "nosubmit",
                            !.ownFailed = of, !.ownError = oe,
                            !.caller = IF kind = "sync" THEN "raised" ELSE "na",
                            !.exc = "AttributeError"]
    ELSE [NewRequest EXCEPT !.kind = kind, !.pc = "queued", !.lp = loop,
                            !.thread = IF kind = "sync" THEN t ELSE 0,
                            !.ownFailed = of, !.ownError = oe,
                            !.caller = IF kind = "sync" THEN "waiting" ELSE "na",
                            !.afterStop = (loop \in stopped),
                            !.after = {q \in Reqs : rq[q].pc = "done"}]

\* RestClient.add_request, called by caller thread t with or without
\* per-request on_failed / on_error hooks.
add_request(t, of, oe) ==
    /\ ~Blocked(t)
    /\ Free # {}
    /\ rq' = [rq EXCEPT ![Min(Free)] = Submitted("async", t, of, oe)]
    /\ UNCHANGED <<loop, session, lstate, stopping, iter, batch, calls, stopped, busy, joined>>

\* RestClient.request, called by caller thread t: submits _get_response and
\* waits in fut.result().  Threads are interchangeable: of the threads that
\* can call, the one with the least id stands for all.
request(t) ==
    /\ ~Blocked(t)
    /\ \A u \in Threads : ~Blocked(u) => t <= u
    /\ Free # {}
    /\ rq' = [rq EXCEPT ![Min(Free)] = Submitted("sync", t, FALSE, FALSE)]
    /\ UNCHANGED <<loop, session, lstate, stopping, iter, batch, calls, stopped, busy, joined>>

\* fut.result() returns in the calling thread once the future is resolved;
\* the thread has left request().
SyncReturn(r) ==
    /\ rq[r].kind = "sync"
    /\ rq[r].caller = "waiting"
    /\ rq[r].fut # "pending"
    /\ rq' = [rq EXCEPT ![r].caller =
                 IF rq[r].fut = "result" THEN "returned" ELSE "raised",
                        ![r].thread = 0]
    /\ UNCHANGED <<loop, session, lstate, stopping, iter, batch, calls, stopped, busy, joined>>

\* ------------------------------------------------------------ the server
\* The remote end answers the pending await of request r: session.request
\* yields a status (of SS) or fails; cr.text() yields the body (of TT) or fails.
NetComplete(r, SS, TT) ==
    /\ \/ /\ rq[r].pc = "io1"
          /\ \/ \E s \in SS :
                   rq' = [rq EXCEPT ![r].pc = "net1", ![r].net = "ok", ![r].cr = s]
             \/ rq' = [rq EXCEPT ![r].pc = "net1", ![r].net = "exc"]
       \/ /\ rq[r].pc = "io2"
          /\ \/ \E b \in TT :
                   rq' = [rq EXCEPT ![r].pc = "net2", ![r].net = "ok", ![r].body = b]
             \/ rq' = [rq EXCEPT ![r].pc = "net2", ![r].net = "exc"]
    /\ UNCHANGED <<loop, session, lstate, stopping, iter, batch, calls, stopped, busy, joined>>

\* ------------------------------------------------------- outcome routing
\* A hook invocation: which hook, its first argument (decoded body or status
\* code), the exception passed to on_error, the Request object passed, and
\* whether the hook raised.
Call(hook, arg, exc, req, raised) ==
    [hook |-> hook, arg |-> arg, exc |-> exc, req |-> req, raised |-> raised]

\* A variant of ErrorPath that ignores the per-request on_error hook.
ErrorPathClientOnly(r, exc, eRaise) ==
    <<Call("client.on_error", 0, exc, r, FALSE)>>

\* _process_request, the except branch: request.on_error when set, otherwise
\* the client default, which catches whatever its own body raises.
ErrorPath(r, exc, eRaise) ==
    IF rq[r].ownError
    THEN <<Call("request.on_error", 0, exc, r, eRaise)>>
    ELSE <<Call("client.on_error", 0, exc, r, FALSE)>>

\* A variant of IsSuccess that takes 200 alone for success.
IsSuccessOnly200(status_code) == status_code = 200

\* status_code // 100 == 2
IsSuccess(status_code) == status_code \div 100 = 2

\* A variant of SuccessPath in which an exception raised by the callback is
\* not routed to the except branch.
SuccessPathUncaught(r, response, hRaise, eRaise) ==
    IF ~Decodes(response.text)
    THEN ErrorPath(r, "JSONDecodeError", eRaise)
    ELSE <<Call("callback", json(response), "", r, hRaise)>>

\* _process_request, the success branch: response.json() is evaluated first;
\* when it raises, or when the callback raises, the except branch runs.
SuccessPath(r, response, hRaise, eRaise) ==
    IF ~Decodes(response.text)
    THEN ErrorPath(r, "JSONDecodeError", eRaise)
    ELSE <<Call("callback", json(response), "", r, hRaise)>>
         \o (IF hRaise THEN ErrorPath(r, "CallbackError", eRaise) ELSE <<>>)

\* A variant of FailurePath that ignores the per-request on_failed hook.
FailurePathClientOnly(r, response, hRaise, eRaise) ==
    <<Call("client.on_failed", response.status_code, "", r, FALSE)>>

\* _process_request, the failure branch: request.on_failed when set (it may
\* raise into the except branch), otherwise the client default.
FailurePath(r, response, hRaise, eRaise) ==
    IF rq[r].ownFailed
    THEN <<Call("request.on_failed", response.status_code, "", r, hRaise)>>
         \o (IF hRaise THEN ErrorPath(r, "HookError", eRaise) ELSE <<>>)
    ELSE <<Call("client.on_failed", response.status_code, "", r, FALSE)>>

\* A variant of Route whose failure branch is not an else branch: after the
\* success branch the failure branch runs too.
RouteFallThrough(r, response, hRaise, eRaise) ==
    IF IsSuccess(response.status_code)
    THEN SuccessPath(r, response, hRaise, eRaise)
         \o FailurePath(r, response, hRaise, eRaise)
    ELSE FailurePath(r, response, hRaise, eRaise)

\* _process_request after _get_response has returned a Response.
Route(r, response, hRaise, eRaise) ==
    IF IsSuccess(response.status_code)
    THEN SuccessPath(r, response, hRaise, eRaise)
    ELSE FailurePath(r, response, hRaise, eRaise)

\* The hook invocations made when _get_response raises exc: the except branch
\* of _process_request for add_request; none for request(), whose coroutine
\* is _get_response itself.
OnRaise(r, exc, eRaise) ==
    IF rq[r].kind = "async" THEN ErrorPath(r, exc, eRaise) ELSE <<>>

\* A variant of Raised that runs the coroutine again from its start after the
\* network call has failed.
RaisedRetry(r, exc) ==
    IF exc = "ClientError"
    THEN [rq[r] EXCEPT !.pc = "task", !.net = "none"]
    ELSE [rq[r] EXCEPT !.pc = IF rq[r].kind = "async" THEN "done" ELSE "finished",
                       !.net = "none", !.cr = 0, !.body = <<>>, !.exc = exc]

\* The Request after _get_response raised exc (kept in the field exc; cr and
\* body, locals of the coroutine, are gone): _process_request has handled it,
\* or the task of request() ends with the exception and its done callback is
\* scheduled.
Raised(r, exc) ==
    IF rq[r].kind = "async"
    THEN [rq[r] EXCEPT !.pc = "done", !.net = "none", !.cr = 0, !.body = <<>>,
                       !.exc = exc]
    ELSE [rq[r] EXCEPT !.pc = "finished", !.net = "none", !.cr = 0, !.body = <<>>,
                       !.exc = exc]

\* ----------------------------------------------------------- event loop
\* Handles in loop L's _ready queue, and transport events its selector has.
Ready(L) ==
    {r \in Reqs : rq[r].lp = L
                  /\ rq[r].pc \in {"queued", "task", "net1", "wake1",
                                   "net2", "wake2", "finished"}}

\* run_forever, one iteration begins: it will run the handles ready now.
LoopBegin(L) ==
    /\ is_running(L)
    /\ ~iter[L]
    /\ Ready(L) # {}
    /\ iter' = [iter EXCEPT ![L] = TRUE]
    /\ batch' = [batch EXCEPT ![L] = Ready(L)]
    /\ UNCHANGED <<loop, session, lstate, stopping, rq, calls, stopped, busy, joined>>

\* run_forever, an iteration with nothing to run: the selector of a loop that
\* has been told to stop returns (a timer of the session, a wakeup).
LoopWake(L) ==
    /\ is_running(L)
    /\ ~iter[L]
    /\ Ready(L) = {}
    /\ stopping[L]
    /\ iter' = [iter EXCEPT ![L] = TRUE]
    /\ batch' = [batch EXCEPT ![L] = {}]
    /\ UNCHANGED <<loop, session, lstate, stopping, rq, calls, stopped, busy, joined>>

\* A variant of AfterIteration in which an exception that leaves a coroutine
\* (a per-request on_error hook that raised) ends run_forever.
AfterIterationCrash(L) ==
    IF stopping[L]
       \/ \E r \in Reqs : rq[r].lp = L /\ \E i \in 1..Len(calls[r]) :
              calls[r][i].hook = "request.on_error" /\ calls[r][i].raised
    THEN "exited" ELSE "running"

\* run_forever after an iteration: "if self._stopping: break"; on the way
\* out the flag is cleared and the thread of run_event_loop ends.
AfterIteration(L) ==
    IF stopping[L] THEN "exited" ELSE "running"

LoopEnd(L) ==
    /\ is_running(L)
    /\ iter[L]
    /\ busy[L] = 0
    /\ batch[L] = {}
    /\ iter' = [iter EXCEPT ![L] = FALSE]
    /\ lstate' = [lstate EXCEPT ![L] = AfterIteration(L)]
    /\ stopping' = [stopping EXCEPT ![L] = FALSE]
    /\ UNCHANGED <<loop, session, batch, rq, calls, stopped, busy, joined>>

\* A variant of Runs in which the loop runs no handle while the network I/O
\* of another of its requests is awaited.
RunsBlocking(L, r) ==
    /\ is_running(L)
    /\ iter[L]
    /\ busy[L] = 0
    /\ r \in batch[L]
    /\ \A p \in Reqs \ {r} : rq[p].lp = L => rq[p].pc \notin {"io1", "io2"}
    /\ batch' = [batch EXCEPT ![L] = @ \ {r}]

\* The iteration of loop L runs the handle of request r; its thread runs one
\* handle at a time.
Runs(L, r) ==
    /\ is_running(L)
    /\ iter[L]
    /\ busy[L] = 0
    /\ r \in batch[L]
    /\ batch' = [batch EXCEPT ![L] = @ \ {r}]

\* run_coroutine_threadsafe's callback: ensure_future(coro) creates the Task,
\* whose first step is scheduled for the next iteration.
CreateTask(L, r) ==
    /\ Runs(L, r)
    /\ rq[r].pc = "queued"
    /\ rq' = [rq EXCEPT ![r].pc = "task"]
    /\ UNCHANGED <<loop, session, lstate, stopping, iter, calls, stopped, busy, joined>>

\* The selector reports the answer of the server: the awaited future is
\* resolved and the task's wakeup is scheduled for the next iteration.
Deliver(L, r) ==
    /\ Runs(L, r)
    /\ rq[r].pc \in {"net1", "net2"}
    /\ rq' = [rq EXCEPT ![r].pc = IF rq[r].pc = "net1" THEN "wake1" ELSE "wake2"]
    /\ UNCHANGED <<loop, session, lstate, stopping, iter, calls, stopped, busy, joined>>

\* ------------------------------------------------------ coroutine steps
\* What sign() may do with the Request it is given: return it, return
\* another Request object, or raise.
SignOutcomes == {"same", "other", "raise"}

\* The object sign() returned: the Request r itself or a different object.
SignedObject(r, sg) == IF sg = "same" THEN r ELSE 0 - r

\* The thread of loop L while it executes the hook invocations hs of request
\* r: inside them when there are any.
Executing(L, r, hs) == IF hs = <<>> THEN busy ELSE [busy EXCEPT ![L] = r]

\* The thread of loop L has returned from the hooks it executed.
HookReturn(L) ==
    /\ busy[L] # 0
    /\ rq[busy[L]].pc = "done"
    /\ busy' = [busy EXCEPT ![L] = 0]
    /\ UNCHANGED <<loop, session, lstate, stopping, iter, batch, rq, calls,
                   stopped, joined>>

\* "await self.session.request(...)": the call is issued and the coroutine
\* suspends.
Issued(r) == [rq[r] EXCEPT !.pc = "io1", !.sent = @ + 1]

\* _get_response up to "if not self.session:": sign and make the url; then,
\* with a session, issue session.request and await it; without one, go on
\* to create it.
FirstStep(L, r, SG, RS) ==
    /\ Runs(L, r)
    /\ rq[r].pc = "task"
    /\ \E sg \in SG, eRaise \in RS :
          IF sg = "raise"
          THEN /\ rq' = [rq EXCEPT ![r] = Raised(r, "SignError")]
               /\ calls' = [calls EXCEPT ![r] = @ \o OnRaise(r, "SignError", eRaise)]
               /\ busy' = Executing(L, r, OnRaise(r, "SignError", eRaise))
          ELSE /\ IF session = 0
                  THEN /\ rq' = [rq EXCEPT ![r].pc = "create",
                                           ![r].signed = SignedObject(r, sg)]
                       /\ busy' = [busy EXCEPT ![L] = r]
                  ELSE /\ rq' = [rq EXCEPT
                                   ![r] = [Issued(r) EXCEPT
                                             !.signed = SignedObject(r, sg)]]
                       /\ UNCHANGED busy
               /\ UNCHANGED calls
    /\ UNCHANGED <<loop, session, lstate, stopping, iter, stopped, joined>>

\* "self.session = ClientSession(trust_env=True)", executed by the thread
\* that found self.session None, then session.request is issued and awaited.
\* The threads of other loops run between the test and the assignment.
CreateSession(L) ==
    /\ busy[L] # 0
    /\ rq[busy[L]].pc = "create"
    /\ session' = session + 1
    /\ rq' = [rq EXCEPT ![busy[L]] = Issued(busy[L])]
    /\ busy' = [busy EXCEPT ![L] = 0]
    /\ UNCHANGED <<loop, lstate, stopping, iter, batch, calls, stopped, joined>>

\* _get_response resumed after "await self.session.request(...)": the call
\* raised, or cr is there and cr.text() is awaited.
ResumeRequest(L, r, RS) ==
    /\ Runs(L, r)
    /\ rq[r].pc = "wake1"
    /\ \E eRaise \in RS :
          IF rq[r].net = "exc"
          THEN /\ rq' = [rq EXCEPT ![r] = Raised(r, "ClientError")]
               /\ calls' = [calls EXCEPT ![r] = @ \o OnRaise(r, "ClientError", eRaise)]
               /\ busy' = Executing(L, r, OnRaise(r, "ClientError", eRaise))
          ELSE /\ rq' = [rq EXCEPT ![r].pc = "io2", ![r].net = "none"]
               /\ UNCHANGED <<calls, busy>>
    /\ UNCHANGED <<loop, session, lstate, stopping, iter, stopped, joined>>

\* "request.response = Response(status_code, text)": request is the object
\* sign() returned, so the Request r gets the Response only when it is that
\* object.
Attach(r, response) ==
    IF rq[r].signed = r THEN response ELSE rq[r].response

\* A variant of OnResponse that routes the Response of request() to the
\* hooks as well.
OnResponseAlways(r, response, hRaise, eRaise) ==
    Route(r, response, hRaise, eRaise)

\* The hook invocations once _get_response has returned: those of
\* _process_request for add_request, none for request().
OnResponse(r, response, hRaise, eRaise) ==
    IF rq[r].kind = "async" THEN Route(r, response, hRaise, eRaise) ELSE <<>>

\* The Request once _get_response has returned its Response (cr and body keep
\* the status and text the server answered with).
Returned(r, response) ==
    IF rq[r].kind = "async"
    THEN [rq[r] EXCEPT !.pc = "done", !.net = "none",
                       !.response = Attach(r, response)]
    ELSE [rq[r] EXCEPT !.pc = "finished", !.net = "none",
                       !.response = Attach(r, response), !.ret = response]

\* _get_response resumed after "await cr.text()": the read raised, or the
\* Response is built, attached and returned, and _process_request routes it.
ResumeText(L, r, RS) ==
    /\ Runs(L, r)
    /\ rq[r].pc = "wake2"
    /\ \E hRaise \in RS, eRaise \in RS :
          IF rq[r].net = "exc"
          THEN /\ rq' = [rq EXCEPT ![r] = Raised(r, "ClientPayloadError")]
               /\ calls' = [calls EXCEPT
                              ![r] = @ \o OnRaise(r, "ClientPayloadError", eRaise)]
               /\ busy' = Executing(L, r, OnRaise(r, "ClientPayloadError", eRaise))
          ELSE LET response == Response(rq[r].cr, rq[r].body)
               IN  /\ rq' = [rq EXCEPT ![r] = Returned(r, response)]
                   /\ calls' = [calls EXCEPT
                                  ![r] = @ \o OnResponse(r, response, hRaise, eRaise)]
                   /\ busy' = Executing(L, r, OnResponse(r, response, hRaise, eRaise))
    /\ UNCHANGED <<loop, session, lstate, stopping, iter, stopped, joined>>

\* The done callback of the task of request(): it resolves the future the
\* calling thread waits on, with the Response or with the exception.
ChainFuture(L, r) ==
    /\ Runs(L, r)
    /\ rq[r].pc = "finished"
    /\ rq' = [rq EXCEPT ![r].pc = "done",
                        ![r].fut = IF rq[r].exc = "" THEN "result" ELSE "exception"]
    /\ UNCHANGED <<loop, session, lstate, stopping, iter, calls, stopped, busy, joined>>

\* ---------------------------------------------------------- specification
\* The life cycle of the client: every operation, over caller threads that
\* start and stop the client and submit in both ways; hooks are the client
\* defaults and return normally, sign returns its argument or raises.
LifeSign == {"same", "raise"}
NoHook == {FALSE}
NoRaise == {FALSE}

Next ==
    \/ \E t \in Threads : start(t)
    \/ \E t \in Threads : stop(t)
    \/ \E t \in Threads, of \in NoHook, oe \in NoHook : add_request(t, of, oe)
    \/ \E t \in Threads : request(t)
    \/ \E r \in Reqs : SyncReturn(r)
    \/ \E r \in Reqs : NetComplete(r, FewStatuses, FewTexts)
    \/ \E L \in Loops : run_event_loop(L)
    \/ \E L \in Loops : LoopBegin(L)
    \/ \E L \in Loops : LoopWake(L)
    \/ \E L \in Loops : LoopEnd(L)
    \/ \E L \in Loops, r \in Reqs : CreateTask(L, r)
    \/ \E L \in Loops, r \in Reqs : FirstStep(L, r, LifeSign, NoRaise)
    \/ \E L \in Loops, r \in Reqs : Deliver(L, r)
    \/ \E L \in Loops, r \in Reqs : ResumeRequest(L, r, NoRaise)
    \/ \E L \in Loops, r \in Reqs : ResumeText(L, r, NoRaise)
    \/ \E L \in Loops, r \in Reqs : ChainFuture(L, r)
    \/ \E L \in Loops : CreateSession(L)
    \/ \E L \in Loops : HookReturn(L)

Spec == Init /\ [][Next]_vars

\* What the thread of loop L does: it enters run_forever and runs iterations.
LoopStep(L) ==
    \/ run_event_loop(L)
    \/ LoopBegin(L)
    \/ LoopEnd(L)
    \/ \E r \in Reqs : CreateTask(L, r)
    \/ \E r \in Reqs : FirstStep(L, r, LifeSign, NoRaise)
    \/ \E r \in Reqs : Deliver(L, r)
    \/ \E r \in Reqs : ResumeRequest(L, r, NoRaise)
    \/ \E r \in Reqs : ResumeText(L, r, NoRaise)
    \/ \E r \in Reqs : ChainFuture(L, r)
    \/ CreateSession(L)
    \/ HookReturn(L)

\* Fair scheduling: the thread of every loop keeps running while it has a
\* step to take, the server answers or fails every call, and a caller whose
\* future is resolved returns.  Callers need not call anything.
FairSpec ==
    /\ Spec
    /\ \A L \in Loops : WF_vars(LoopStep(L))
    /\ \A r \in Reqs : WF_vars(NetComplete(r, FewStatuses, FewTexts))
    /\ \A r \in Reqs : WF_vars(SyncReturn(r))

\* Outcome routing: a client started once and never stopped, add_request
\* with every combination of per-request hooks, every answer of the server,
\* every outcome of sign, and hooks that return or raise.
RouteNext ==
    \/ \E t \in Threads : loop = 0 /\ start(t)
    \/ \E t \in Threads, of \in BOOLEAN, oe \in BOOLEAN : add_request(t, of, oe)
    \/ \E r \in Reqs : NetComplete(r, Statuses, Texts)
    \/ \E L \in Loops : run_event_loop(L)
    \/ \E L \in Loops : LoopBegin(L)
    \/ \E L \in Loops : LoopEnd(L)
    \/ \E L \in Loops, r \in Reqs : CreateTask(L, r)
    \/ \E L \in Loops, r \in Reqs : FirstStep(L, r, SignOutcomes, BOOLEAN)
    \/ \E L \in Loops, r \in Reqs : Deliver(L, r)
    \/ \E L \in Loops, r \in Reqs : ResumeRequest(L, r, BOOLEAN)
    \/ \E L \in Loops, r \in Reqs : ResumeText(L, r, BOOLEAN)
    \/ \E L \in Loops : CreateSession(L)
    \/ \E L \in Loops : HookReturn(L)

RouteSpec == Init /\ [][RouteNext]_vars

\* The two ways of submitting side by side: a client started once and never
\* stopped, add_request and request() from several threads, every answer of
\* the server and every outcome of sign; hooks return.
SyncNext ==
    \/ \E t \in Threads : loop = 0 /\ start(t)
    \/ \E t \in Threads, of \in NoHook, oe \in NoHook : add_request(t, of, oe)
    \/ \E t \in Threads : request(t)
    \/ \E r \in Reqs : SyncReturn(r)
    \/ \E r \in Reqs : NetComplete(r, Statuses, Texts)
    \/ \E L \in Loops : run_event_loop(L)
    \/ \E L \in Loops : LoopBegin(L)
    \/ \E L \in Loops : LoopEnd(L)
    \/ \E L \in Loops, r \in Reqs : CreateTask(L, r)
    \/ \E L \in Loops, r \in Reqs : FirstStep(L, r, SignOutcomes, NoRaise)
    \/ \E L \in Loops, r \in Reqs : Deliver(L, r)
    \/ \E L \in Loops, r \in Reqs : ResumeRequest(L, r, NoRaise)
    \/ \E L \in Loops, r \in Reqs : ResumeText(L, r, NoRaise)
    \/ \E L \in Loops, r \in Reqs : ChainFuture(L, r)
    \/ \E L \in Loops : CreateSession(L)
    \/ \E L \in Loops : HookReturn(L)

SyncSpec == Init /\ [][SyncNext]_vars

\* The life cycle with join(): every step of Next, and join() from any
\* caller thread at any time.
JoinNext ==
    \/ Next
    \/ \E t \in Threads : join(t)

JoinSpec == Init /\ [][JoinNext]_vars

\* ------------------------------------------------------------ properties
\* How often hook h was invoked for request r.
Count(r, h) == Cardinality({i \in 1..Len(calls[r]) : calls[r][i].hook = h})

SuccessHooks == {"callback"}
FailedHooks == {"request.on_failed", "client.on_failed"}
ErrorHooks == {"request.on_error", "client.on_error"}

\* Whether one of the hooks HS was invoked for request r.
Fired(r, HS) == \E i \in 1..Len(calls[r]) : calls[r][i].hook \in HS

\* The number of outcome paths (success, failure, error) fired for request r.
PathsFired(r) ==
    (IF Fired(r, SuccessHooks) THEN 1 ELSE 0)
    + (IF Fired(r, FailedHooks) THEN 1 ELSE 0)
    + (IF Fired(r, ErrorHooks) THEN 1 ELSE 0)

\* The execution unit of an add_request request has run to its end.
Finished(r) == rq[r].kind = "async" /\ rq[r].pc = "done"

\* The HTTP call of an add_request request completed with a status and a body.
Completed(r) == Finished(r) /\ rq[r].cr # 0

\* The per-request hook when set, the client default otherwise.
FailedHookOf(r) == IF rq[r].ownFailed THEN "request.on_failed" ELSE "client.on_failed"
ErrorHookOf(r) == IF rq[r].ownError THEN "request.on_error" ELSE "client.on_error"

C2_SuccessAlwaysCallback ==
    \A r \in Reqs :
        Completed(r) /\ rq[r].cr \in 200..299 =>
            /\ Len(calls[r]) = 1
            /\ calls[r][1].hook = "callback"
            /\ calls[r][1].arg = NumVal(rq[r].body)
            /\ calls[r][1].req = r

\* C2 amended: a completed call with a status in [200,299] whose body decodes
\* has the success callback invoked exactly once, first, with the decoded
\* body and the original Request; no on_failed hook is invoked; an on_error
\* hook is invoked (once, the per-request one when set) exactly when that
\* callback raised.
C2_SuccessWhenDecodable ==
    \A r \in Reqs :
        Completed(r) /\ rq[r].cr \in 200..299 /\ Decodes(rq[r].body) =>
            /\ Count(r, "callback") = 1
            /\ calls[r][1].hook = "callback"
            /\ calls[r][1].arg = NumVal(rq[r].body)
            /\ calls[r][1].req = r
            /\ ~Fired(r, FailedHooks)
            /\ IF calls[r][1].raised
               THEN Len(calls[r]) = 2 /\ calls[r][2].hook = ErrorHookOf(r)
               ELSE Len(calls[r]) = 1

\* C2 witness: a call that completed with 299 and a JSON body, its callback
\* invoked and returned.
C2_Witness ==
    \E r \in Reqs :
        /\ Completed(r) /\ rq[r].cr = 299 /\ Decodes(rq[r].body)
        /\ calls[r] = <<Call("callback", 1, "", r, FALSE)>>

\* C3: a completed call with a status outside [200,299] has exactly one
\* on_failed invocation, of the per-request hook when it is set and of the
\* client default otherwise, with (status_code, request), and the success
\* callback is not invoked.
C3_FailureRouting ==
    \A r \in Reqs :
        Completed(r) /\ rq[r].cr \notin 200..299 =>
            /\ Count(r, "request.on_failed") + Count(r, "client.on_failed") = 1
            /\ calls[r][1].hook = FailedHookOf(r)
            /\ calls[r][1].arg = rq[r].cr
            /\ calls[r][1].req = r
            /\ ~Fired(r, SuccessHooks)

\* C3 witness: both a per-request and a client-default on_failed invocation,
\* at the two edges of the range.
C3_Witness ==
    \E r \in Reqs, q \in Reqs :
        /\ Completed(r) /\ rq[r].cr = 300 /\ rq[r].ownFailed
        /\ calls[r][1] = Call("request.on_failed", 300, "", r, FALSE)
        /\ Completed(q) /\ rq[q].cr = 199 /\ ~rq[q].ownFailed
        /\ calls[q] = <<Call("client.on_failed", 199, "", q, FALSE)>>

\* The exception that signing, the network call or the body decode raised
\* for a finished add_request request ("" when none did).
RaisedIn(r) ==
    IF rq[r].exc # "" THEN rq[r].exc
    ELSE IF rq[r].cr \in 200..299 /\ ~Decodes(rq[r].body) THEN "JSONDecodeError"
    ELSE ""

\* C4: when signing, the network call or the body decode raised, the only
\* hook invocation for the request is one on_error invocation, of the
\* per-request hook when it is set and of the client default otherwise, with
\* that exception and the request.
C4_ErrorRouting ==
    \A r \in Reqs :
        Finished(r) /\ RaisedIn(r) # "" =>
            /\ Len(calls[r]) = 1
            /\ calls[r][1].hook = ErrorHookOf(r)
            /\ calls[r][1].exc = RaisedIn(r)
            /\ calls[r][1].req = r

\* C4 witness: a decode failure routed to the per-request on_error hook and a
\* signing failure routed to the client default.
C4_Witness ==
    \E r \in Reqs, q \in Reqs :
        /\ Finished(r) /\ RaisedIn(r) = "JSONDecodeError" /\ rq[r].ownError
        /\ calls[r][1].hook = "request.on_error"
        /\ Finished(q) /\ RaisedIn(q) = "SignError" /\ ~rq[q].ownError
        /\ calls[q][1].hook = "client.on_error"

\* C5 as stated: at no time does the client have more than one running
\* worker context (an event loop running in its background thread).
C5_AtMostOneWorker ==
    Cardinality({L \in Loops : is_running(L)}) <= 1

\* C6 as stated: every call of request() that waits eventually returns a
\* Response or raises in the calling thread.
C6_SyncCompletes ==
    \A r \in Reqs :
        (rq[r].caller = "waiting") ~> (rq[r].caller \in {"returned", "raised"})

\* The step the loop takes for a handle of request r.
HandleStep(L, r) ==
    \/ CreateTask(L, r)
    \/ FirstStep(L, r, LifeSign, NoRaise)
    \/ Deliver(L, r)
    \/ ResumeRequest(L, r, NoRaise)
    \/ ResumeText(L, r, NoRaise)
    \/ ChainFuture(L, r)

\* Caller thread t is inside request(), waiting for request r.
WaitsFor(t, r) ==
    rq[r].kind = "sync" /\ rq[r].thread = t /\ rq[r].caller = "waiting"

\* While a call of request() waits, only its own thread is held up: every
\* thread that is not itself inside request() can submit with add_request
\* and some thread with request(), and every loop can run each handle of its
\* iteration and begin an iteration when handles are ready.
OthersNotHeldUp ==
    \A w \in Threads, r \in Reqs :
        WaitsFor(w, r) =>
            /\ \A t \in Threads :
                  (~(\E q \in Reqs : WaitsFor(t, q)) /\ Free # {}) =>
                      /\ ENABLED add_request(t, FALSE, FALSE)
                      /\ ENABLED (\E u \in Threads : request(u))
            /\ \A L \in Loops :
                  /\ \A q \in Reqs :
                        (is_running(L) /\ iter[L] /\ busy[L] = 0 /\ q \in batch[L]) =>
                            ENABLED HandleStep(L, q)
                  /\ (is_running(L) /\ ~iter[L] /\ Ready(L) # {}) =>
                        ENABLED LoopBegin(L)

C8_InFlightCompletes ==
    \A r \in Reqs : rq[r].atStop ~> (Finished(r) /\ calls[r] # <<>>)

\* C9: for a request submitted, with add_request or request(), while
\* self.loop is a loop stop() was called on, nothing is signed, no network
\* call is issued and no hook is invoked: its coroutine never takes its first
\* step.
C9_NothingAfterStop ==
    \A r \in Reqs :
        rq[r].afterStop =>
            /\ rq[r].pc \in {"queued", "task"}
            /\ rq[r].signed = 0
            /\ calls[r] = <<>>
            /\ rq[r].response = None

\* C9 witness: a request submitted after stop() whose handle the last
\* iteration of the loop has run (its task exists) and whose loop has exited.
C9_Witness ==
    \E r \in Reqs :
        /\ rq[r].afterStop /\ rq[r].pc = "task"
        /\ lstate[rq[r].lp] = "exited"

\* The execution unit of request r ended in a failure or an exception.
EndedBadly(r) ==
    Finished(r) /\ (Fired(r, FailedHooks) \/ Fired(r, ErrorHooks))

\* C10: whatever the outcome of a request, no step ends a running loop that
\* stop() was not called on, and the only step that invokes hooks for a
\* request is a step of its own coroutine, which invokes no hook of, and
\* changes nothing in, any other request.
C10_Contained ==
    [][ /\ \A L \in Loops :
              (is_running(L) /\ ~stopping[L]) => (lstate'[L] = "running")
        /\ \A r \in Reqs :
              (calls'[r] # calls[r]) =>
                  /\ rq[r].pc \in {"task", "wake1", "wake2"}
                  /\ r \in batch[rq[r].lp]
                  /\ \A q \in Reqs \ {r} : calls'[q] = calls[q] /\ rq'[q] = rq[q]
      ]_vars

\* C10 witness: a request whose callback and per-request on_error hook both
\* raised; a request submitted after that has had its callback invoked, and
\* the loop is still running.
C10_Witness ==
    \E r \in Reqs, q \in Reqs :
        /\ EndedBadly(r) /\ Len(calls[r]) = 2
        /\ calls[r][2].hook = "request.on_error" /\ calls[r][2].raised
        /\ r \in rq[q].after
        /\ Finished(q) /\ calls[q] = <<Call("callback", 1, "", q, FALSE)>>
        /\ is_running(rq[q].lp)

-----------------------------------------------------------------------------
\* The thread of loop L is executing hooks of a request.
InHook(L) == busy[L] # 0 /\ rq[busy[L]].pc = "done"

\* C11: hook invocations of one client are serialized: in no reachable state
\* are the hooks (callback, on_failed, on_error) of two different requests
\* executing at the same time.
C11_HooksSerialised ==
    \A L, M \in Loops :
        (InHook(L) /\ InHook(M)) => busy[L] = busy[M]

\* C12: at most one shared session is ever created per client: the lazy
\* creation in _get_response happens at most once (session counts the
\* ClientSession objects assigned to self.session).
C12_OneSession == session <= 1

\* sign treated requests r and q alike: it returned the object it was given
\* for both, or another object for both.
SameSign(r, q) == (rq[r].signed = r) <=> (rq[q].signed = q)

\* C13: for identical inputs and identical server behaviour, the Response
\* returned by the synchronous request() has the same status code and text
\* as the Response attached to the Request of the equivalent add_request().
C13_SyncEqualsAsync ==
    \A r, q \in Reqs :
        (/\ rq[r].kind = "sync" /\ rq[r].caller = "returned"
         /\ Completed(q)
         /\ SameSign(r, q)
         /\ rq[q].cr = rq[r].cr /\ rq[q].body = rq[r].body)
        => rq[q].response = rq[r].ret

\* C14: join() waits for the worker's thread to exit: whenever a join() made
\* after stop() has returned, the thread of the stopped loop is no longer
\* running.
C14_JoinWaits == \A L \in joined : lstate[L] = "exited"

\* The exception a raising success callback or per-request on_failed hook
\* raises.
RaisedBy(hook) == IF hook = "callback" THEN "CallbackError" ELSE "HookError"

\* C15: when the success callback or the on_failed hook of an add_request
\* request raises, the exception is caught and routed to the error path:
\* request.on_error when set, otherwise client.on_error, is invoked exactly
\* once, right after the raising hook, with that exception and the request.
C15_HookRaiseRouted ==
    \A r \in Reqs : \A i \in 1..Len(calls[r]) :
        (calls[r][i].hook \in {"callback", "request.on_failed"} /\ calls[r][i].raised)
        => /\ Len(calls[r]) = i + 1
           /\ calls[r][i + 1].hook = ErrorHookOf(r)
           /\ calls[r][i + 1].exc = RaisedBy(calls[r][i].hook)
           /\ calls[r][i + 1].req = r
           /\ Count(r, "request.on_error") + Count(r, "client.on_error") = 1

\* C15 witness: a raising success callback routed to the client default
\* on_error, and a raising per-request on_failed routed to the per-request
\* on_error.
C15_Witness ==
    \E r \in Reqs, q \in Reqs :
        /\ Finished(r) /\ ~rq[r].ownError
        /\ calls[r][1].hook = "callback" /\ calls[r][1].raised
        /\ calls[r][2].hook = "client.on_error"
        /\ Finished(q) /\ rq[q].ownError
        /\ calls[q][1].hook = "request.on_failed" /\ calls[q][1].raised
        /\ calls[q][2].hook = "request.on_error"

\* C16: the response field of a dispatched Request is None until its call
\* completes; once the call has completed (with any status) the field holds
\* the Response of that call and keeps it; the rendering of the Request
\* shows "terminated" exactly while the field is None and the numeric status
\* code afterwards.
C16_ResponseSetOnce ==
    \A r \in Reqs :
        rq[r].kind = "async" =>
            IF Completed(r)
            THEN /\ rq[r].response = Response(rq[r].cr, rq[r].body)
                 /\ RenderStatus(rq[r].response) = ToString(rq[r].cr)
            ELSE /\ rq[r].response = None
                 /\ RenderStatus(rq[r].response) = "terminated"

\* C17: every Request is dispatched to at most one network call: after any
\* sequence of operations, failures and stop()/start() cycles, the number of
\* session.request calls issued for a Request never exceeds one, and it is
\* one for a Request whose call is in flight.
C17_AtMostOneCall ==
    \A r \in Reqs :
        /\ rq[r].sent <= 1
        /\ (rq[r].pc \in InFlight) => (rq[r].sent = 1)

\* C17 witness: a request whose network call failed and was brought to its
\* end with one call issued, and a stop()/start() cycle after which a new
\* worker runs.
C17_Witness ==
    \E r \in Reqs, L \in Loops :
        /\ rq[r].pc = "done" /\ rq[r].exc = "ClientError" /\ rq[r].sent = 1
        /\ L \in stopped /\ lstate[L] = "exited"
        /\ loop # L /\ is_running(loop)

\* The network I/O of request r is awaited and nothing has arrived for it.
Pending(r) == rq[r].pc \in {"io1", "io2"}

\* C18: requests in flight interleave on one worker: while the network I/O
\* of request r is pending, for however long, every other request of the
\* same loop goes on: the loop runs each of its handles (create the task,
\* sign and send, resume with the answer, route the outcome), begins an
\* iteration when one is ready, and the server can answer it.
C18_Interleave ==
    \A r \in Reqs, q \in Reqs :
        (q # r /\ Pending(r) /\ rq[q].lp = rq[r].lp) =>
            LET L == rq[r].lp
            IN  /\ (is_running(L) /\ iter[L] /\ busy[L] = 0 /\ q \in batch[L])
                       => ENABLED HandleStep(L, q)
                /\ (is_running(L) /\ ~iter[L] /\ q \in Ready(L))
                       => ENABLED LoopBegin(L)
                /\ Pending(q) => ENABLED NetComplete(q, FewStatuses, FewTexts)

\* C18 witness: request q, submitted after request r to the same loop, has
\* been sent, answered and brought to its outcome while the first network
\* call of r is still pending.
C18_Witness ==
    \E r \in Reqs, q \in Reqs :
        /\ r < q /\ rq[q].lp = rq[r].lp
        /\ rq[r].kind = "async" /\ rq[r].pc = "io1"
        /\ Completed(q) /\ rq[q].sent = 1 /\ Len(calls[q]) = 1

\* C19: whenever the success callback or an on_failed hook is invoked with a
\* Request, that Request object has its response attached (not None), with
\* the status code used for the classification, whatever object sign
\* returned.
C19_HookSeesResponse ==
    \A r \in Reqs : \A i \in 1..Len(calls[r]) :
        (calls[r][i].hook \in SuccessHooks \cup FailedHooks) =>
            /\ rq[calls[r][i].req].response # None
            /\ rq[calls[r][i].req].response.status_code = rq[r].cr

\* What signing or the network call raises.
CallErrors == {"SignError", "ClientError", "ClientPayloadError"}

\* C20: the synchronous request() never invokes a hook, whatever the status
\* code or the exception; a call that returns gives the caller the Response
\* with the status and text of the server, 2xx or not; a call that raises
\* that fut.result() raises re-raises the exception of signing or of the
\* network call (rq[r].lp # 0: the coroutine was submitted to a loop).
C20_SyncNoHooks ==
    \A r \in Reqs :
        rq[r].kind = "sync" =>
            /\ calls[r] = <<>>
            /\ (rq[r].caller = "returned") =>
                   /\ rq[r].exc = ""
                   /\ rq[r].cr \in Statuses
                   /\ rq[r].ret = Response(rq[r].cr, rq[r].body)
            /\ (rq[r].caller = "raised" /\ rq[r].lp # 0) =>
                   /\ rq[r].exc \in CallErrors
                   /\ rq[r].ret = None

\* C20 witness: one call of request() has returned a Response with a non-2xx
\* status and another has raised the exception of its network call, neither
\* with any hook invoked.
C20_Witness ==
    \E r \in Reqs, q \in Reqs :
        /\ rq[r].kind = "sync" /\ rq[r].caller = "returned"
        /\ ~IsSuccess(rq[r].ret.status_code) /\ calls[r] = <<>>
        /\ rq[q].kind = "sync" /\ rq[q].caller = "raised"
        /\ rq[q].exc = "ClientError" /\ calls[q] = <<>>
====
